---- MODULE Spec2Model ----
(***************************************************************************)
(* Model of telegram_token_price_bot.py: the watch-list file targets.json  *)
(* with its backup, the price monitoring coroutine check_prices and the    *)
(* chat command handler handle_message, both running on one asyncio event  *)
(* loop (a coroutine runs without interruption between two awaits).        *)
(***************************************************************************)
EXTENDS Integers, Sequences, FiniteSets, TLC

VARIABLES
    live,       \* the file targets.json
    bak,        \* the file targets.json.bak
    mon,        \* frame of the coroutine check_prices (position and locals)
    out,        \* what handle_message did with the last update
    notified,   \* crossing notifications the chat transport accepted, per
                \* symbol and bound, since the symbol was last added
    skipped,    \* tokens of the current cycle whose price lookup was None
    cmdmut,     \* last mutation a command persisted since the Monitor's load
    lastSave,   \* the last completed save: its caller, its argument, the
                \* live file before it, the tokens its cycle skipped
    committed,  \* last complete content the live file held
    up,         \* the process is running
    crashes,    \* number of times the process was killed
    updates     \* number of updates the chat transport delivered

vars == <<live, bak, mon, out, notified, skipped, cmdmut, lastSave,
          committed, up, crashes, updates>>

\* ------------------------------------------------------------------------
\* Bounds of the model
\* ------------------------------------------------------------------------
MaxCrashes == 1
MaxUpdates == 2

\* ------------------------------------------------------------------------
\* Configuration and strings
\* ------------------------------------------------------------------------
AUTHORIZED_CHAT_ID == 1
OTHER_CHAT_ID == 2
ChatIds == {AUTHORIZED_CHAT_ID, OTHER_CHAT_ID}

\* get_token_price returns None when the lookup fails or has no usd field
None == 0 - 1
Prices == {1, 2, 3}
PriceResults == Prices \cup {None}

\* str.lower() on the strings the model uses
Lower(s) ==
    CASE s = "SOL" -> "sol"
      [] s = "Sol" -> "sol"
      [] s = "BTC" -> "btc"
      [] s = "Remove" -> "remove"
      [] s = "ADD" -> "add"
      [] s = "UPPER" -> "upper"
      [] s = "Solana" -> "solana"
      [] OTHER -> s

\* str.upper() on the strings the model uses
Upper(s) ==
    CASE s = "sol" -> "SOL"
      [] s = "Sol" -> "SOL"
      [] s = "btc" -> "BTC"
      [] OTHER -> s

\* float(v): the strings float() accepts, with their values
FloatTab == [v \in {"2", "2.0", "1e0"} |-> IF v = "1e0" THEN 1 ELSE 2]
IsFloat(v) == v \in DOMAIN FloatTab
float(v) == FloatTab[v]

\* ------------------------------------------------------------------------
\* Targets (the dicts of targets.json)
\* ------------------------------------------------------------------------
EmptyDict == [k \in {} |-> 0]

\* d.pop(k) that empties the dict
Pop_all(d, k) == [x \in {} |-> d[x]]

\* d.pop(k)
Pop(d, k) == [x \in (DOMAIN d) \ {k} |-> d[x]]

\* d[k] = v
Put(d, k, v) == [x \in (DOMAIN d) \cup {k} |-> IF x = k THEN v ELSE d[x]]

Entry(symbol, id) == [symbol |-> symbol, id |-> id]
EntryB(symbol, id, bounds) == [symbol |-> symbol, id |-> id, bounds |-> bounds]

\* token.get("bounds") is truthy
HasBounds(token) == "bounds" \in DOMAIN token /\ DOMAIN token.bounds # {}

\* token.get("bounds"), an empty dict standing for None: both are falsy and
\* the code reads the value only when it is truthy
GetBounds(token) == IF "bounds" \in DOMAIN token THEN token.bounds ELSE EmptyDict

Range(s) == {s[i] : i \in DOMAIN s}

\* ------------------------------------------------------------------------
\* Files
\* ------------------------------------------------------------------------
\* st: "absent" no such file, "full" a complete json document,
\*     "empty" zero bytes, "partial" a proper prefix of a json document
Absent == [st |-> "absent", data |-> <<>>]
Full(targets) == [st |-> "full", data |-> targets]
Empty == [st |-> "empty", data |-> <<>>]
Partial == [st |-> "partial", data |-> <<>>]

\* load_targets: [] when the file does not exist, json.load otherwise, which
\* raises on a file that is not a complete document
load_targets(lv) ==
    CASE lv.st = "absent" -> [exc |-> "", targets |-> <<>>]
      [] lv.st = "full" -> [exc |-> "", targets |-> lv.data]
      [] OTHER -> [exc |-> "JSONDecodeError", targets |-> <<>>]

\* save_steps with the live file opened for writing before the copy
save_steps_truncate_first(targets, lv, bk) ==
    IF lv.st = "absent"
    THEN << >>
    ELSE << [live |-> Empty, bak |-> bk],
            [live |-> Empty, bak |-> Empty],
            [live |-> Empty, bak |-> Empty],
            [live |-> Partial, bak |-> Empty],
            [live |-> Full(targets), bak |-> Empty] >>

\* The file states save_targets(targets) goes through, in order, from files
\* lv, bk: shutil.copy opens the source (raising when it does not exist),
\* truncates the backup and writes it; open(.., "w") truncates the live
\* file; json.dump writes it. The last element is the state on return.
save_steps(targets, lv, bk) ==
    IF lv.st = "absent"
    THEN << >>
    ELSE << [live |-> lv, bak |-> Empty],
            [live |-> lv, bak |-> IF lv.st = "empty" THEN Empty ELSE Partial],
            [live |-> lv, bak |-> lv],
            [live |-> Empty, bak |-> lv],
            [live |-> Partial, bak |-> lv],
            [live |-> Full(targets), bak |-> lv] >>

\* save_targets with the copy made after the live file was written
save_targets_copy_last(targets, lv, bk) ==
    IF lv.st = "absent"
    THEN [exc |-> "FileNotFoundError", live |-> lv, bak |-> bk]
    ELSE [exc |-> "", live |-> Full(targets), bak |-> Full(targets)]

\* save_targets as a whole
save_targets(targets, lv, bk) ==
    LET steps == save_steps(targets, lv, bk) IN
    IF steps = << >>
    THEN [exc |-> "FileNotFoundError", live |-> lv, bak |-> bk]
    ELSE [exc |-> "", live |-> steps[Len(steps)].live, bak |-> steps[Len(steps)].bak]

\* the file states a kill of the process inside save_targets can leave:
\* the files as they were (the kill falls before the first write, or live
\* does not exist and the kill falls before shutil.copy raises), every
\* state the save goes through, and the completed save (the kill falls
\* after the file is closed and before save_targets returns)
save_killed(targets, lv, bk) ==
    {[live |-> lv, bak |-> bk]} \cup Range(save_steps(targets, lv, bk))

\* the last complete content of the live file after a kill that left s
committed_after(s, c) == IF s.live.st = "full" THEN s.live.data ELSE c

\* ------------------------------------------------------------------------
\* check_prices
\* ------------------------------------------------------------------------
\* pc: "load"       at the top of the while loop or in asyncio.sleep(60)
\*     "send_lower" awaiting bot.send_message of the lower notification
\*     "send_upper" awaiting bot.send_message of the upper notification
\*     "end"        the for loop is over (transient, inside one step)
\*     "dead"       an exception left the coroutine
\* sent: the notifications of this cycle the transport accepted, as pairs
\*     of the index of the token and the bound
\* InitMon with changes_made set from the start
InitMon_changed ==
    [pc |-> "load", targets |-> <<>>, i |-> 1, price |-> None,
     updated_bounds |-> EmptyDict, updated_targets |-> <<>>,
     changes_made |-> TRUE, sent |-> {}]

InitMon ==
    [pc |-> "load", targets |-> <<>>, i |-> 1, price |-> None,
     updated_bounds |-> EmptyDict, updated_targets |-> <<>>,
     changes_made |-> FALSE, sent |-> {}]

\* updated_entry that always writes the bounds field
updated_entry_with_bounds(token, updated_bounds) ==
    EntryB(token.symbol, token.id, updated_bounds)

\* the entry appended after the two bound checks of a token
updated_entry(token, updated_bounds) ==
    IF DOMAIN updated_bounds # {}
    THEN EntryB(token.symbol, token.id, updated_bounds)
    ELSE Entry(token.symbol, token.id)

lower_hit(bounds, price) == "lower" \in DOMAIN bounds /\ price <= bounds["lower"]
upper_hit(bounds, price) == "upper" \in DOMAIN bounds /\ price >= bounds["upper"]

RECURSIVE for_loop(_, _, _)
RECURSIVE after_lower(_, _, _)
RECURSIVE after_upper(_, _, _)

\* the body of the for loop from token f.i on, up to the next await or the
\* end of the loop; prices[i] is what get_token_price returns for token i;
\* sk collects the tokens whose lookup returned None
for_loop(f, sk, prices) ==
    IF f.i > Len(f.targets)
    THEN [mon |-> [f EXCEPT !.pc = "end"], skipped |-> sk]
    ELSE LET token == f.targets[f.i]
             price == prices[f.i]
             bounds == GetBounds(token)
             g == [f EXCEPT !.price = price]
         IN  IF price = None
             THEN for_loop([g EXCEPT !.i = @ + 1], Append(sk, token), prices)
             ELSE IF ~HasBounds(token)
             THEN for_loop([g EXCEPT !.i = @ + 1,
                                     !.updated_targets = Append(@, token)],
                           sk, prices)
             ELSE LET h == [g EXCEPT !.updated_bounds = bounds] IN
                  IF lower_hit(bounds, price)
                  THEN [mon |-> [h EXCEPT !.pc = "send_lower"], skipped |-> sk]
                  ELSE after_lower(h, sk, prices)

\* from the upper check of token f.i on
after_lower(f, sk, prices) ==
    IF upper_hit(GetBounds(f.targets[f.i]), f.price)
    THEN [mon |-> [f EXCEPT !.pc = "send_upper"], skipped |-> sk]
    ELSE after_upper(f, sk, prices)

\* after_upper that leaves the for loop once the token is appended
after_upper_breaks(f, sk, prices) ==
    [mon |-> [f EXCEPT !.pc = "end",
                       !.i = @ + 1,
                       !.updated_targets =
                           Append(@, updated_entry(f.targets[f.i], f.updated_bounds))],
     skipped |-> sk]

\* from the append of token f.i on
after_upper(f, sk, prices) ==
    for_loop([f EXCEPT !.i = @ + 1,
                       !.updated_targets =
                           Append(@, updated_entry(f.targets[f.i], f.updated_bounds))],
             sk, prices)

\* the coroutine resumes after a send that succeeded
after_send(f, sk, prices) ==
    IF f.pc = "send_lower"
    THEN after_lower([f EXCEPT !.pc = "run", !.changes_made = TRUE,
                               !.sent = @ \cup {<<f.i, "lower">>},
                               !.updated_bounds = Pop(@, "lower")], sk, prices)
    ELSE after_upper([f EXCEPT !.pc = "run", !.changes_made = TRUE,
                               !.sent = @ \cup {<<f.i, "upper">>},
                               !.updated_bounds = Pop(@, "upper")], sk, prices)

\* symbols are compared ignoring case, as the commands compare them
Key(symbol) == Upper(symbol)
Keys == {"SOL", "BTC"}
BoundKinds == {"lower", "upper"}

NoMut == [k \in Keys |-> "none"]
NoNotes == [k \in Keys |-> [b \in BoundKinds |-> 0]]

\* the notification of f.pc for token f.i was accepted by the transport
Note(n, f) ==
    LET k == Key(f.targets[f.i].symbol)
        b == IF f.pc = "send_lower" THEN "lower" ELSE "upper"
    IN  [n EXCEPT ![k][b] = @ + 1]

\* The coroutine reached r.mon: at an await it is suspended there; at the
\* end of the for loop it saves when changes_made and goes to sleep. The
\* locals of a finished cycle are never read again (lines 47-49 reassign
\* them), so the frame of a sleeping coroutine is InitMon.
\* kill: the process is killed inside that save_targets.
MonitorReaches(r, kill) ==
    /\ skipped' = r.skipped
    /\ IF r.mon.pc = "end" /\ r.mon.changes_made
       THEN LET sv == save_targets(r.mon.updated_targets, live, bak) IN
            IF kill
            THEN /\ crashes < MaxCrashes
                 /\ \E s \in save_killed(r.mon.updated_targets, live, bak) :
                        /\ live' = s.live
                        /\ bak' = s.bak
                        /\ committed' = committed_after(s, committed)
                 /\ up' = FALSE
                 /\ crashes' = crashes + 1
                 /\ mon' = InitMon
                 /\ UNCHANGED lastSave
            ELSE /\ live' = sv.live
                 /\ bak' = sv.bak
                 /\ mon' = [InitMon EXCEPT !.pc = IF sv.exc = "" THEN "load" ELSE "dead"]
                 /\ lastSave' = IF sv.exc = ""
                                THEN [by |-> "check_prices", prev |-> live,
                                      arg |-> r.mon.updated_targets,
                                      skipped |-> r.skipped]
                                ELSE lastSave
                 /\ committed' = IF sv.exc = "" THEN r.mon.updated_targets
                                 ELSE committed
                 /\ UNCHANGED <<up, crashes>>
       ELSE /\ ~kill
            /\ mon' = IF r.mon.pc = "end" THEN InitMon ELSE r.mon
            /\ UNCHANGED <<live, bak, lastSave, committed, up, crashes>>

PriceFuns(targets) == [1..Len(targets) -> PriceResults]

\* the outcomes of the awaited send of frame f: TRUE it returns, FALSE it
\* raises
SendOutcomes(f) == BOOLEAN

\* Operation in which the oracle returns 1, a price at or below every lower
\* bound, on every lookup for SOL, the transport accepts every notification
\* for SOL, and no command removes SOL. The event loop resumes a coroutine
\* whose sleep or awaited send is over, hence the weak fairness.
PriceFunsLow(targets) ==
    {p \in PriceFuns(targets) :
        \A i \in DOMAIN targets : Key(targets[i].symbol) = "SOL" => p[i] = 1}

SendOutcomesSol(f) ==
    IF Key(f.targets[f.i].symbol) = "SOL" THEN {TRUE} ELSE BOOLEAN

\* the answers of the oracle and of the transport: any, or (low) the oracle
\* at price 1 for SOL and the transport accepting the notifications of SOL
PricesFor(low, targets) == IF low THEN PriceFunsLow(targets) ELSE PriceFuns(targets)
SendsFor(low, f) == IF low THEN SendOutcomesSol(f) ELSE SendOutcomes(f)

\* lines 47-93 from the top of the while loop to the first await, with the
\* oracle answering as PricesFor(low, _)
MonitorCycleOn(low) ==
    /\ up
    /\ mon.pc = "load"
    /\ LET ld == load_targets(live) IN
       IF ld.exc # ""
       THEN /\ mon' = [mon EXCEPT !.pc = "dead"]
            /\ UNCHANGED <<live, bak, out, notified, skipped, cmdmut, lastSave,
                           committed, up, crashes, updates>>
       ELSE /\ \E prices \in PricesFor(low, ld.targets) :
                  MonitorReaches(
                      for_loop([InitMon EXCEPT !.pc = "run", !.targets = ld.targets],
                               <<>>, prices),
                      FALSE)
            /\ cmdmut' = NoMut
            /\ UNCHANGED <<out, notified, updates>>

MonitorCycle == MonitorCycleOn(FALSE)

\* the awaited bot.send_message returns (ok) or raises, and the coroutine
\* runs on to its next await, with the oracle and the transport answering as
\* PricesFor(low, _) and SendsFor(low, _)
MonitorResumeOn(kill, low) ==
    /\ up
    /\ mon.pc \in {"send_lower", "send_upper"}
    /\ \E ok \in SendsFor(low, mon) :
          IF ~ok
          THEN /\ ~kill
               /\ mon' = [mon EXCEPT !.pc = "dead"]
               /\ UNCHANGED <<live, bak, out, notified, skipped, cmdmut, lastSave,
                              committed, up, crashes, updates>>
          ELSE /\ \E prices \in PricesFor(low, mon.targets) :
                     MonitorReaches(after_send(mon, skipped, prices), kill)
               /\ notified' = Note(notified, mon)
               /\ UNCHANGED <<out, cmdmut, updates>>

MonitorResume(kill) == MonitorResumeOn(kill, FALSE)

\* ------------------------------------------------------------------------
\* handle_message
\* ------------------------------------------------------------------------
\* A message text is the sequence of its whitespace-separated words
\* (str.split()), and a word is the sequence of its parts between "="
\* signs (str.split("=")): "lower=2" is <<"lower", "2">>.
W(s) == <<s>>

\* msg = update.message.text.strip().lower()
lower_text(text) ==
    [i \in DOMAIN text |-> [j \in DOMAIN text[i] |-> Lower(text[i][j])]]

\* tracked with the stored symbol compared as it is
tracked_exact(targets, symbol) ==
    \E i \in DOMAIN targets : targets[i].symbol = symbol

\* any(t["symbol"].upper() == symbol for t in targets)
tracked(targets, symbol) ==
    \E i \in DOMAIN targets : Upper(targets[i].symbol) = symbol

\* what a command decided: the reply it sends, the exception that left the
\* handler, and whether it calls save_targets(targets) before the reply
Plan(reply, exc, save, targets, symbol, op) ==
    [reply |-> reply, exc |-> exc, save |-> save, targets |-> targets,
     symbol |-> symbol, op |-> op]
Reply(reply) == Plan(reply, "", FALSE, <<>>, "", "none")
Raise(exc) == Plan("none", exc, FALSE, <<>>, "", "none")

\* lines 134-141: the loop over parts[3:], from word n on
RECURSIVE parse_bounds(_, _, _)
parse_bounds(parts, n, bounds) ==
    IF n > Len(parts)
    THEN [reply |-> "", exc |-> "", bounds |-> bounds]
    ELSE LET p == parts[n] IN
         IF Len(p) > 1
         THEN IF Len(p) # 2
              THEN [reply |-> "", exc |-> "ValueError", bounds |-> bounds]
              ELSE IF IsFloat(p[2])
                   THEN parse_bounds(parts, n + 1, Put(bounds, p[1], float(p[2])))
                   ELSE [reply |-> "invalid_value", exc |-> "", bounds |-> bounds]
         ELSE parse_bounds(parts, n + 1, bounds)

\* cmd_add working on the list that was stored before the last save
cmd_add_stale(parts, lv) ==
    IF Len(parts) < 3
    THEN Reply("format")
    ELSE LET symbol == Upper(parts[2][1])
             token_id == parts[3][1]
             pb == parse_bounds(parts, 4, EmptyDict)
             ld == load_targets(bak)
             new_entry == IF DOMAIN pb.bounds # {}
                          THEN EntryB(symbol, token_id, pb.bounds)
                          ELSE Entry(symbol, token_id)
         IN  CASE pb.exc # "" -> Raise(pb.exc)
               [] pb.exc = "" /\ pb.reply # "" -> Reply(pb.reply)
               [] pb.exc = "" /\ pb.reply = "" /\ ld.exc # "" -> Raise(ld.exc)
               [] OTHER ->
                    IF tracked(ld.targets, symbol)
                    THEN Reply("exists")
                    ELSE Plan("added", "", TRUE, Append(ld.targets, new_entry),
                              symbol, "added")

\* lines 125-162
cmd_add(parts, lv) ==
    IF Len(parts) < 3
    THEN Reply("format")
    ELSE LET symbol == Upper(parts[2][1])
             token_id == parts[3][1]
             pb == parse_bounds(parts, 4, EmptyDict)
             ld == load_targets(lv)
             new_entry == IF DOMAIN pb.bounds # {}
                          THEN EntryB(symbol, token_id, pb.bounds)
                          ELSE Entry(symbol, token_id)
         IN  CASE pb.exc # "" -> Raise(pb.exc)
               [] pb.exc = "" /\ pb.reply # "" -> Reply(pb.reply)
               [] pb.exc = "" /\ pb.reply = "" /\ ld.exc # "" -> Raise(ld.exc)
               [] OTHER ->
                    IF tracked(ld.targets, symbol)
                    THEN Reply("exists")
                    ELSE Plan("added", "", TRUE, Append(ld.targets, new_entry),
                              symbol, "added")

\* lines 184-193
cmd_remove(parts, lv) ==
    LET symbol == Upper(parts[2][1])
        ld == load_targets(lv)
        new_targets == SelectSeq(ld.targets, LAMBDA t : Upper(t.symbol) # symbol)
    IN  IF ld.exc # ""
        THEN Raise(ld.exc)
        ELSE IF Len(new_targets) = Len(ld.targets)
             THEN Reply("not_found")
             ELSE Plan("removed", "", TRUE, new_targets, symbol, "removed")

\* lines 111-123; price is what get_token_price returns
cmd_price(parts, lv, price) ==
    LET symbol == Upper(parts[2][1])
        ld == load_targets(lv)
    IN  IF ld.exc # ""
        THEN Raise(ld.exc)
        ELSE IF tracked(ld.targets, symbol)
             THEN IF price # None THEN Reply("price") ELSE Reply("no_price")
             ELSE Reply("not_found")

\* lines 164-182
cmd_show(parts, lv) ==
    LET symbol == Upper(parts[2][1])
        ld == load_targets(lv)
    IN  IF ld.exc # ""
        THEN Raise(ld.exc)
        ELSE IF tracked(ld.targets, symbol) THEN Reply("details")
             ELSE Reply("not_found")

\* lines 102-109
cmd_list(lv) ==
    LET ld == load_targets(lv) IN
    IF ld.exc # ""
    THEN Raise(ld.exc)
    ELSE IF ld.targets = <<>> THEN Reply("no_tokens") ELSE Reply("tracking")

\* handle_message without the check of the chat identifier
handle_message_any_chat(m, lv, price) ==
    IF FALSE
    THEN Reply("none")
    ELSE LET parts == lower_text(m.text)
             first == parts[1]
         IN  CASE parts = <<W("list")>> -> cmd_list(lv)
               [] first = W("price") /\ Len(parts) > 1 -> cmd_price(parts, lv, price)
               [] first = W("add") /\ Len(parts) > 1 -> cmd_add(parts, lv)
               [] first = W("show") /\ Len(parts) > 1 -> cmd_show(parts, lv)
               [] first = W("remove") /\ Len(parts) > 1 -> cmd_remove(parts, lv)
               [] parts = <<W("help")>> -> Reply("help")
               [] OTHER -> Reply("unknown")

\* lines 96-216 up to the call of save_targets
handle_message(m, lv, price) ==
    IF m.chat # AUTHORIZED_CHAT_ID
    THEN Reply("none")
    ELSE LET parts == lower_text(m.text)
             first == parts[1]
         IN  CASE parts = <<W("list")>> -> cmd_list(lv)
               [] first = W("price") /\ Len(parts) > 1 -> cmd_price(parts, lv, price)
               [] first = W("add") /\ Len(parts) > 1 -> cmd_add(parts, lv)
               [] first = W("show") /\ Len(parts) > 1 -> cmd_show(parts, lv)
               [] first = W("remove") /\ Len(parts) > 1 -> cmd_remove(parts, lv)
               [] parts = <<W("help")>> -> Reply("help")
               [] OTHER -> Reply("unknown")

\* the update was handled (or the process was killed inside its save)
HandleMessage(m, kill) ==
    /\ up
    /\ updates < MaxUpdates
    /\ updates' = updates + 1
    /\ \E price \in IF Lower(m.text[1][1]) = "price" THEN PriceResults ELSE {None} :
         LET pl == handle_message(m, live, price)
             sv == save_targets(pl.targets, live, bak)
             res(reply, exc) == [chat |-> m.chat, cmd |-> Lower(m.text[1][1]),
                                 reply |-> reply, exc |-> exc]
         IN  IF pl.save /\ kill
             THEN /\ crashes < MaxCrashes
                  /\ \E s \in save_killed(pl.targets, live, bak) :
                         /\ live' = s.live
                         /\ bak' = s.bak
                         /\ committed' = committed_after(s, committed)
                  /\ up' = FALSE
                  /\ crashes' = crashes + 1
                  /\ mon' = InitMon
                  /\ UNCHANGED <<out, notified, skipped, cmdmut, lastSave>>
             ELSE IF pl.save /\ sv.exc = ""
             THEN /\ live' = sv.live
                  /\ bak' = sv.bak
                  /\ out' = res(pl.reply, "")
                  /\ cmdmut' = [cmdmut EXCEPT ![pl.symbol] = pl.op]
                  /\ lastSave' = [by |-> "handle_message", prev |-> live,
                                  arg |-> pl.targets, skipped |-> <<>>]
                  /\ committed' = pl.targets
                  /\ notified' = IF pl.op = "added"
                                 THEN [notified EXCEPT ![pl.symbol] = NoNotes[pl.symbol]]
                                 ELSE notified
                  /\ UNCHANGED <<mon, skipped, up, crashes>>
             ELSE /\ ~kill
                  /\ out' = IF pl.save THEN res("none", sv.exc)
                            ELSE res(pl.reply, pl.exc)
                  /\ UNCHANGED <<live, bak, mon, notified, skipped, cmdmut,
                                 lastSave, committed, up, crashes>>

\* the supervisor starts the process again: start() creates a new
\* check_prices task
Restart ==
    /\ ~up
    /\ up' = TRUE
    /\ mon' = InitMon
    /\ skipped' = <<>>
    /\ cmdmut' = NoMut
    /\ UNCHANGED <<live, bak, out, notified, lastSave, committed, crashes, updates>>

\* ------------------------------------------------------------------------
\* Inputs
\* ------------------------------------------------------------------------
L2 == <<"lower", "2">>
U2 == <<"UPPER", "2.0">>
L1 == <<"lower", "1e0">>

\* add SYMBOL ID followed by the words a
Add(symbol, id, a) == <<W("add"), W(symbol), W(id)>> \o a

AuthorizedTexts ==
    { <<W("list")>>, <<W("help")>>, <<W("hello")>>, <<W("add"), W("SOL")>>,
      <<W("price"), W("sol")>>, <<W("show"), W("Sol")>>,
      <<W("remove"), W("sol")>>, <<W("Remove"), W("BTC")>>,
      Add("sol", "Solana", <<>>),
      Add("SOL", "solana", <<L2>>),
      Add("Sol", "solana", <<L2, U2>>),
      Add("sol", "solana", <<L1, L2>>),
      Add("BTC", "bitcoin", <<W("180")>>),
      Add("btc", "bitcoin", <<U2>>),
      Add("btc", "bitcoin", <<<<"foo", "2">>>>),
      Add("btc", "bitcoin", <<<<"lower", "abc">>>>),
      Add("sol", "solana", <<L2, <<"upper", "">>>>),
      Add("sol", "solana", <<<<"lower", "1", "2">>>>),
      <<W("ADD"), W("BTC"), W("bitcoin"), L2>> }

OtherTexts ==
    { <<W("list")>>, <<W("remove"), W("sol")>>, Add("btc", "bitcoin", <<U2>>) }

\* the commands that write the store, and one that does not
MutatingTexts ==
    { <<W("remove"), W("sol")>>, <<W("Remove"), W("BTC")>>,
      Add("SOL", "solana", <<L2>>), Add("btc", "bitcoin", <<U2>>),
      <<W("list")>> }

MutatingMessages == [chat : {AUTHORIZED_CHAT_ID}, text : MutatingTexts]

Messages ==
    [chat : {AUTHORIZED_CHAT_ID}, text : AuthorizedTexts]
    \cup [chat : {OTHER_CHAT_ID}, text : OtherTexts]

Dict1(k, v) == Put(EmptyDict, k, v)
Dict2(k1, v1, k2, v2) == Put(Dict1(k1, v1), k2, v2)

InitFiles ==
    { Absent,
      Full(<<>>),
      Full(<<EntryB("Sol", "solana", Dict2("lower", 1, "upper", 2))>>),
      Full(<<EntryB("SOL", "solana", Dict2("lower", 2, "upper", 2)),
             Entry("BTC", "bitcoin")>>),
      Full(<<EntryB("BTC", "bitcoin", Dict1("lower", 2)),
             EntryB("SOL", "solana", Dict1("upper", 2))>>) }

\* ------------------------------------------------------------------------
\* Specifications
\* ------------------------------------------------------------------------
Init ==
    /\ live \in InitFiles
    /\ bak = Absent
    /\ mon = InitMon
    /\ out = [chat |-> AUTHORIZED_CHAT_ID, cmd |-> "", reply |-> "none", exc |-> ""]
    /\ notified = NoNotes
    /\ skipped = <<>>
    /\ cmdmut = NoMut
    /\ lastSave = [by |-> "", prev |-> Absent, arg |-> <<>>, skipped |-> <<>>]
    /\ committed = live.data
    /\ up = TRUE
    /\ crashes = 0
    /\ updates = 0

MonitorSendReturns == MonitorResume(FALSE)
Update == \E m \in Messages : HandleMessage(m, FALSE)
MonitorKilledInSave == MonitorResume(TRUE)
Mutation == \E m \in MutatingMessages : HandleMessage(m, FALSE)
UpdateKilledInSave == \E m \in MutatingMessages : HandleMessage(m, TRUE)

\* normal operation
Next ==
    \/ MonitorCycle
    \/ MonitorSendReturns
    \/ Update

Spec == Init /\ [][Next]_vars

\* operation with the process killed inside save_targets and restarted
NextCrash ==
    \/ MonitorCycle
    \/ MonitorSendReturns
    \/ Mutation
    \/ MonitorKilledInSave
    \/ UpdateKilledInSave
    \/ Restart

SpecCrash == Init /\ [][NextCrash]_vars


KeepingTexts ==
    { <<W("Remove"), W("BTC")>>, Add("SOL", "solana", <<L2>>),
      Add("btc", "bitcoin", <<L2>>), <<W("list")>> }

KeepingMessages == [chat : {AUTHORIZED_CHAT_ID}, text : KeepingTexts]

MonitorCycleLow == MonitorCycleOn(TRUE)
MonitorSendReturnsLow == MonitorResumeOn(FALSE, TRUE)
UpdateKeeping == \E m \in KeepingMessages : HandleMessage(m, FALSE)

NextLive ==
    \/ MonitorCycleLow
    \/ MonitorSendReturnsLow
    \/ UpdateKeeping

SpecLive ==
    /\ Init
    /\ [][NextLive]_vars
    /\ WF_vars(MonitorCycleLow)
    /\ WF_vars(MonitorSendReturnsLow)

\* ------------------------------------------------------------------------
\* Properties
\* ------------------------------------------------------------------------
\* the watch-list has an entry for the symbol key k, ignoring case
Present(targets, k) == \E i \in DOMAIN targets : Key(targets[i].symbol) = k

\* the watch-list has an entry for k whose bound b is armed
Armed(targets, k, b) ==
    \E i \in DOMAIN targets :
        /\ Key(targets[i].symbol) = k
        /\ "bounds" \in DOMAIN targets[i]
        /\ b \in DOMAIN targets[i].bounds

\* C1: a mutation a command persisted after the Monitor's load of a cycle
\* is still in the store after the Monitor's save of that cycle: an added
\* symbol is present, a removed symbol is absent.
NoLostUpdate ==
    live.st = "full" =>
        \A k \in Keys :
            /\ cmdmut[k] = "added" => Present(live.data, k)
            /\ cmdmut[k] = "removed" => ~Present(live.data, k)

\* C2: when a Monitor cycle persists, every token it loaded whose price
\* lookup returned None is in the persisted watch-list, unchanged.
AbsentPriceCarried ==
    lastSave.by = "check_prices" =>
        \A t \in Range(lastSave.skipped) : t \in Range(live.data)

\* C3: the Monitor sends at most one notification for an armed bound, and
\* once the cycle that sent it is over, by reaching its sleep or by an
\* exception, the bound is absent from the store until the symbol is added
\* again.
OneShot ==
    \A k \in Keys : \A b \in BoundKinds :
        /\ notified[k][b] <= 1
        /\ (notified[k][b] = 1 /\ mon.pc \in {"load", "dead"} /\ live.st = "full")
               => ~Armed(live.data, k, b)

\* no two entries of the watch-list have symbols equal ignoring case
UniqueSymbols(targets) ==
    \A i, j \in DOMAIN targets :
        Key(targets[i].symbol) = Key(targets[j].symbol) => i = j

\* the text is an add command with a symbol and an id
IsAdd(text) == Len(text) >= 3 /\ Lower(text[1][1]) = "add"

\* C4: no two persisted targets have symbols equal ignoring case, and an
\* add of a symbol that is present in any letter case is rejected: it
\* leaves the store alone and is not confirmed.
SymbolsUnique ==
    /\ [](live.st = "full" => UniqueSymbols(live.data))
    /\ [][\A m \in Messages :
            (/\ m.chat = AUTHORIZED_CHAT_ID
             /\ IsAdd(m.text)
             /\ Present(live.data, Key(m.text[2][1]))
             /\ HandleMessage(m, FALSE))
            => /\ live' = live
               /\ bak' = bak
               /\ out'.reply # "added"]_vars

\* C4 witness: an add of SOL was refused while the store holds the symbol
\* in another letter case
SymbolsUniqueWitness ==
    /\ out.cmd = "add"
    /\ out.reply = "exists"
    /\ live.st = "full"
    /\ \E i \in DOMAIN live.data : live.data[i].symbol = "Sol"

\* C5: once a save has completed, whenever the process is killed inside
\* save_targets (or not at all), the live file or the backup holds the
\* complete watch-list that was last persisted.
CrashSafe ==
    lastSave.by # "" => (live = Full(committed) \/ bak = Full(committed))

\* C5 witness: the process was killed after it truncated the live file, and
\* the backup holds the watch-list persisted by an earlier save
CrashSafeWitness ==
    /\ ~up
    /\ lastSave.by # ""
    /\ live.st \in {"empty", "partial"}
    /\ bak = Full(committed)
    /\ committed # <<>>

\* C6: at every point at which the process may stop, the live file that
\* exists is a complete document.
LiveNeverTorn == live.st \in {"absent", "full"}

\* C7: after a completed save the backup is what the live file was just
\* before that save, and the live file is the sequence passed to save.
BackupInvariant ==
    lastSave.by # "" => (bak = lastSave.prev /\ live = Full(lastSave.arg))

\* C7 witness: a save of the Monitor completed over a different watch-list
BackupInvariantWitness ==
    /\ lastSave.by = "check_prices"
    /\ bak.st = "full"
    /\ bak.data # live.data
    /\ bak = lastSave.prev

\* a word of the form key=number with key lower or upper
IsBoundWord(w) == Len(w) = 2 /\ w[1] \in {"lower", "upper"} /\ IsFloat(w[2])

\* the text follows the grammar add SYMBOL ID [lower=N] [upper=N]
GrammarAdd(text) ==
    /\ IsAdd(text)
    /\ \A n \in 4..Len(text) : IsBoundWord(lower_text(text)[n])

\* the bounds the words of a grammatical add give
GivenBounds(text) ==
    LET t == lower_text(text)
        ks == {t[n][1] : n \in 4..Len(t)}
    IN  [k \in ks |-> float(t[CHOOSE n \in 4..Len(t) :
                                  t[n][1] = k /\ \A n2 \in 4..Len(t) :
                                                   t[n2][1] = k => n2 <= n][2])]

\* C8: an add that follows the grammar, handled while load returns the
\* empty sequence (no store file included), leaves a store of exactly one
\* entry with that symbol, id and bounds, and is confirmed.
AddToEmptySucceeds ==
    [][\A m \in Messages :
          (/\ m.chat = AUTHORIZED_CHAT_ID
           /\ GrammarAdd(m.text)
           /\ live.st \in {"absent", "full"}
           /\ live.data = <<>>
           /\ HandleMessage(m, FALSE))
          => /\ live'.st = "full"
             /\ Len(live'.data) = 1
             /\ Key(live'.data[1].symbol) = Key(m.text[2][1])
             /\ live'.data[1].id = Lower(m.text[3][1])
             /\ GetBounds(live'.data[1]) = GivenBounds(m.text)
             /\ out'.reply = "added"]_vars

\* the replies that report an error of a command
ErrorReplies == {"exists", "not_found", "invalid_value", "format"}

\* the word has an "=" and what follows the "=" is not a number
MalformedWord(w) == Len(w) > 1 /\ ~(Len(w) = 2 /\ IsFloat(w[2]))

\* the command ends in an error on the watch-list targets: an add of a
\* symbol that is present, an add with a malformed bound value, a remove
\* of a symbol that is absent
EndsInError(text, targets) ==
    \/ /\ IsAdd(text)
       /\ \/ Present(targets, Key(text[2][1]))
          \/ \E n \in 4..Len(text) : MalformedWord(text[n])
    \/ /\ Len(text) = 2
       /\ Lower(text[1][1]) = "remove"
       /\ ~Present(targets, Key(text[2][1]))

\* C9: a command that ends in an error writes neither the live store nor
\* the backup and sends an error reply.
ErrorsWriteNothing ==
    [][\A m \in Messages :
          (/\ m.chat = AUTHORIZED_CHAT_ID
           /\ EndsInError(m.text, live.data)
           /\ HandleMessage(m, FALSE))
          => /\ live' = live
             /\ bak' = bak
             /\ out'.reply \in ErrorReplies]_vars

\* C10: an update from a chat other than the authorized one changes
\* neither file, sends no reply and no notification, and leaves the
\* Monitor alone.
UnauthorizedIgnored ==
    [][\A m \in Messages :
          (m.chat # AUTHORIZED_CHAT_ID /\ HandleMessage(m, FALSE))
          => /\ live' = live
             /\ bak' = bak
             /\ out'.reply = "none"
             /\ out'.exc = ""
             /\ notified' = notified
             /\ mon' = mon]_vars

\* C10 witness: an add of BTC from another chat was handled while BTC was
\* not tracked, and a store that exists still does not track it
UnauthorizedIgnoredWitness ==
    /\ out.chat = OTHER_CHAT_ID
    /\ out.cmd = "add"
    /\ live.st = "full"
    /\ ~Present(live.data, "BTC")
    /\ Present(live.data, "SOL")

\* the step is one of check_prices that resumes from an awaited send
MonitorResumes == mon.pc \in {"send_lower", "send_upper"} /\ mon' # mon

\* the bound the suspended Monitor is sending the notification of
SentBound == IF mon.pc = "send_lower" THEN "lower" ELSE "upper"

\* C11: a send that fails does not end the Monitor: it goes on with the
\* cycle, and when the cycle is over the fired bound is out of the store.
SendFailureSwallowed ==
    [][(MonitorResumes /\ notified' = notified)
          => /\ mon'.pc \in {"load", "send_lower", "send_upper"}
             /\ mon'.pc = "load"
                    => /\ live'.st = "full"
                       /\ ~Armed(live'.data, Key(mon.targets[mon.i].symbol),
                                 SentBound)]_vars

\* C12: a Monitor cycle that runs from its load to its sleep with no bound
\* fired writes neither file and sends no notification.
QuietCycleWritesNothing ==
    [][(mon.pc = "load" /\ mon'.pc = "load" /\ updates' = updates)
          => /\ live' = live
             /\ bak' = bak
             /\ notified' = notified]_vars

\* C12 witness: a cycle over two targets, one without a price and one
\* whose bounds the price did not meet, is over and nothing was ever saved
QuietCycleWitness ==
    /\ mon.pc = "load"
    /\ Len(skipped) = 1
    /\ live.st = "full"
    /\ Len(live.data) = 2
    /\ \E i \in DOMAIN live.data :
           live.data[i] \notin Range(skipped) /\ HasBounds(live.data[i])
    /\ lastSave.by = ""
    /\ bak = Absent

\* C13: no crossing notification is sent while the fired bound is still
\* in the persisted store.
PersistedBeforeSent ==
    [][\A k \in Keys : \A b \in BoundKinds :
          notified'[k][b] > notified[k][b]
              => ~(live.st = "full" /\ Armed(live.data, k, b))]_vars

\* C14: the Monitor writes the files only in the step that ends a cycle,
\* by one save of the output of the whole loaded watch-list.
OneSavePerCycle ==
    [][(updates' = updates /\ (live' # live \/ bak' # bak))
          => /\ mon.pc \in {"send_lower", "send_upper"}
             /\ mon'.pc = "load"
             /\ lastSave'.by = "check_prices"
             /\ live' = Full(lastSave'.arg)
             /\ bak' = live
             /\ Len(lastSave'.arg) + Len(lastSave'.skipped) = Len(mon.targets)]_vars

\* C14 witness: a cycle over two targets sent two notifications and saved
\* both targets
OneSavePerCycleWitness ==
    /\ lastSave.by = "check_prices"
    /\ Len(lastSave.arg) = 2
    /\ mon.pc = "load"
    /\ \E k1, k2 \in Keys : \E b1, b2 \in BoundKinds :
           /\ <<k1, b1>> # <<k2, b2>>
           /\ notified[k1][b1] = 1
           /\ notified[k2][b2] = 1

\* C15: with the Monitor scheduled fairly, a lower bound of SOL that is in
\* the store while the oracle returns a price at or below it on every
\* lookup and no command removes SOL leads to a lower notification for
\* SOL and to the bound being out of the store.
BoundDetected ==
    (live.st = "full" /\ Armed(live.data, "SOL", "lower"))
        ~> (notified["SOL"]["lower"] >= 1 /\ ~Armed(live.data, "SOL", "lower"))

\* C16: no persisted target carries a bounds field that is an empty
\* collection: a target whose last bound fired, or that was added without
\* bounds, has no bounds field.
NoEmptyBounds ==
    live.st = "full" =>
        \A i \in DOMAIN live.data :
            "bounds" \in DOMAIN live.data[i] => DOMAIN live.data[i].bounds # {}

\* C16 witness: the only bound of BTC fired, the Monitor saved, and the
\* entry of BTC has no bounds field
NoEmptyBoundsWitness ==
    /\ lastSave.by = "check_prices"
    /\ notified["BTC"]["lower"] = 1
    /\ live.st = "full"
    /\ \E i \in DOMAIN live.data :
           /\ Key(live.data[i].symbol) = "BTC"
           /\ "bounds" \notin DOMAIN live.data[i]

\* C17: the bounds of every persisted target have no key other than lower
\* and upper.
OnlyLowerUpper ==
    live.st = "full" =>
        \A i \in DOMAIN live.data :
            DOMAIN GetBounds(live.data[i]) \subseteq {"lower", "upper"}

\* the price meets both bounds of the token
BothHit(token, price) ==
    /\ "bounds" \in DOMAIN token
    /\ {"lower", "upper"} \subseteq DOMAIN token.bounds
    /\ price <= token.bounds["lower"]
    /\ price >= token.bounds["upper"]

\* the entry of token f.i, without a bounds field, is in the output of the
\* cycle
AppendedBare(f) ==
    LET e == Entry(f.targets[f.i].symbol, f.targets[f.i].id) IN
    \/ mon'.pc \in {"send_lower", "send_upper"} /\ e \in Range(mon'.updated_targets)
    \/ mon'.pc = "load" /\ live'.st = "full" /\ e \in Range(live'.data)

\* C18: when the price meets both bounds of a target, the Monitor sends the
\* lower and then the upper notification for it in that cycle and the
\* entry it persists has no bounds field.
BothBoundsFire ==
    [][(MonitorResumes /\ BothHit(mon.targets[mon.i], mon.price))
          => LET k == Key(mon.targets[mon.i].symbol) IN
             IF mon.pc = "send_lower"
             THEN /\ notified'[k]["lower"] = notified[k]["lower"] + 1
                  /\ mon'.pc = "send_upper"
                  /\ mon'.i = mon.i
             ELSE /\ notified'[k]["upper"] = notified[k]["upper"] + 1
                  /\ <<mon.i, "lower">> \in mon.sent
                  /\ AppendedBare(mon)]_vars

\* the Monitor ends its cycle with a save that succeeds
MonitorPersists ==
    /\ updates' = updates
    /\ mon.pc \in {"send_lower", "send_upper"}
    /\ mon'.pc = "load"
    /\ lastSave' # lastSave
    /\ lastSave'.by = "check_prices"

\* the notifications of the cycle that ends with this step
FiredInCycle == mon.sent \cup {<<mon.i, SentBound>>}

\* the indices of the loaded targets that had a price, in loaded order
PricedIndices ==
    SelectSeq([i \in 1..Len(mon.targets) |-> i],
              LAMBDA i : mon.targets[i] \notin Range(skipped'))

\* C19: a cycle of the Monitor that persists writes the loaded targets that
\* had a price, in their order and with their symbol and id; a bound that
\* did not fire keeps its value, a bound that fired is gone, and no symbol
\* and no bound is written that was not loaded.
MonitorOnlyRemovesFired ==
    [][MonitorPersists
          => /\ live'.st = "full"
             /\ Len(live'.data) = Len(PricedIndices)
             /\ \A j \in DOMAIN live'.data :
                    LET i == PricedIndices[j]
                        old == mon.targets[i]
                        new == live'.data[j]
                    IN  /\ new.symbol = old.symbol
                        /\ new.id = old.id
                        /\ DOMAIN GetBounds(new) =
                               {k \in DOMAIN GetBounds(old) : <<i, k>> \notin FiredInCycle}
                        /\ \A k \in DOMAIN GetBounds(new) :
                               GetBounds(new)[k] = GetBounds(old)[k]]_vars

\* C19 witness: the Monitor saved two targets in their order, the first
\* without the bound that fired, the second with the bound that did not
MonitorOnlyRemovesFiredWitness ==
    /\ lastSave.by = "check_prices"
    /\ notified["BTC"]["lower"] = 1
    /\ live = Full(<<Entry("BTC", "bitcoin"),
                     EntryB("SOL", "solana", Dict1("upper", 2))>>)

\* a command writes the store
CommandWrites == updates' # updates /\ (live' # live \/ bak' # bak)

\* C20: a command works on the store as it is when the command is handled:
\* what it writes is the stored list with one entry appended for a symbol
\* that was not tracked, or the stored list without the entries of one
\* symbol, and the backup is the store it replaced; no entry written by an
\* earlier command or by the Monitor is lost or brought back.
CommandsSerial ==
    [][CommandWrites
          => /\ live.st = "full"
             /\ live'.st = "full"
             /\ bak' = live
             /\ \/ /\ Len(live'.data) = Len(live.data) + 1
                   /\ SubSeq(live'.data, 1, Len(live.data)) = live.data
                   /\ ~Present(live.data, Key(live'.data[Len(live'.data)].symbol))
                \/ \E k \in Keys :
                      /\ Present(live.data, k)
                      /\ live'.data =
                             SelectSeq(live.data, LAMBDA t : Key(t.symbol) # k)]_vars

\* C20 witness: an add was handled after a save of the Monitor that took
\* the fired lower bound of SOL out of the store; the store holds the
\* Monitor's result with the new entry appended
CommandsSerialWitness ==
    /\ lastSave.by = "handle_message"
    /\ out.reply = "added"
    /\ mon.pc = "load"
    /\ notified["SOL"]["lower"] = 1
    /\ bak = Full(<<EntryB("Sol", "solana", Dict1("upper", 2))>>)
    /\ live = Full(<<EntryB("Sol", "solana", Dict1("upper", 2)),
                     Entry("BTC", "bitcoin")>>)

====
